---- MODULE Spec2Model ----
(***************************************************************************)
(* A model of the reconnecting streaming client of mhubclient-go           *)
(* (src/unnamed/part_000).  The file holds two evolutions of client.go:    *)
(* lines 1-156 (the first) and lines 158-329 (the second).  Both are       *)
(* modelled; the variable `version` says which one a behaviour runs.       *)
(* GetPlainMessages of the HTTP client (src/client.go) is modelled too,     *)
(* under its own specification SpecHTTP.                                   *)
(*                                                                         *)
(* A Go string is modelled as a record [s, nul]: the characters s          *)
(* followed by nul NUL bytes.  The only place NUL bytes come from is the   *)
(* fixed receive buffer of getmessages (make([]byte, 1024), string(b)),    *)
(* which pads what was read to BufSize bytes.                              *)
(*                                                                         *)
(* A *Message is modelled as a sequence: <<>> is nil, <<m>> points to m.   *)
(* h.Conn is 0 (nil) or the number of the dial that created it.            *)
(*                                                                         *)
(* Preconditions of the model: the certificate files load (newTlsConfig    *)
(* does not panic), the address resolves, and h.Handler is set as in the   *)
(* USAGE comment.                                                          *)
(***************************************************************************)
EXTENDS Integers, Sequences, FiniteSets, TLC

\* Bounds of the model.
MaxDials == 3
MaxReads == 3
MaxPublish == 1
MaxLen == 3
MaxLoops == 3

\* make([]byte, 1024)
BufSize == 1024

\* http.StatusOK
StatusOK == 200

NL == "\n"
Dot == "."

----------------------------------------------------------------------------
\* Strings

Str(chars) == [s |-> chars, nul |-> 0]

\* a + b, for a without NUL bytes (every use in the code below)
Cat(a, b) == [s |-> a.s \o b.s, nul |-> b.nul]

\* The strings over alphabet of length at most n.
RECURSIVE SeqsUpTo(_, _)
SeqsUpTo(alphabet, n) ==
    IF n = 0 THEN {<<>>}
    ELSE LET shorter == SeqsUpTo(alphabet, n - 1)
         IN shorter \cup {Append(w, c) : w \in shorter, c \in alphabet}

DotAt(chars) == {i \in 1..Len(chars) : chars[i] = Dot}

\* The position of the k-th separator; 0 before the first part and
\* Len + 1 after the last.
NthDot(chars, k) ==
    IF k = 0 THEN 0
    ELSE IF k > Cardinality(DotAt(chars)) THEN Len(chars) + 1
    ELSE CHOOSE i \in DotAt(chars) :
             Cardinality({j \in DotAt(chars) : j < i}) = k - 1

\* strings.Split(msg, "."): n separators give n + 1 parts; the NUL padding
\* holds no separator and stays with the last part.
Split(msg) ==
    LET n == Cardinality(DotAt(msg.s)) + 1
    IN [k \in 1..n |->
          [s   |-> SubSeq(msg.s, NthDot(msg.s, k - 1) + 1, NthDot(msg.s, k) - 1),
           nul |-> IF k = n THEN msg.nul ELSE 0]]

----------------------------------------------------------------------------
\* Frame codec

NewMessage(subscriberID, topic, payload) ==
    [SubscriberID |-> subscriberID, Topic |-> topic, Payload |-> payload]

\* As String, with the format "%s.%s.%s" of the doc comment: no newline.
StringNoNewline(m) ==
    Cat(m.SubscriberID,
        Cat(Str(<<Dot>>), Cat(m.Topic, Cat(Str(<<Dot>>), m.Payload))))

\* fmt.Sprintf("%s.%s.%s\n", m.SubscriberID, m.Topic, m.Payload)
String(m) ==
    Cat(m.SubscriberID,
        Cat(Str(<<Dot>>),
            Cat(m.Topic, Cat(Str(<<Dot>>), Cat(m.Payload, Str(<<NL>>))))))

\* A result (m *Message, ok bool) of a parser, or the panic it ended in.
Result(m, ok) == [panic |-> FALSE, ok |-> ok, m |-> m]
Panic == [panic |-> TRUE, ok |-> FALSE, m |-> <<>>]

\* First evolution: rejects any part count other than 4.
parseMessage(msg) ==
    LET msgSplit == Split(msg)
    IN IF Len(msgSplit) # 4
       THEN Result(<<>>, FALSE)
       ELSE Result(<<NewMessage(msgSplit[1], msgSplit[2],
                                Cat(Cat(msgSplit[3], Str(<<Dot>>)), msgSplit[4]))>>,
                   TRUE)

\* Second evolution: no length check; msgSplit[2] and msgSplit[3] (Go
\* indices) are read, which panics (index out of range) on fewer than 4
\* parts, and parts beyond the fourth are ignored.  ok is always true.
defaultParser(msg) ==
    LET msgSplit == Split(msg)
    IN IF Len(msgSplit) < 4
       THEN Panic
       ELSE Result(<<NewMessage(msgSplit[1], msgSplit[2],
                                Cat(Cat(msgSplit[3], Str(<<Dot>>)), msgSplit[4]))>>,
                   TRUE)

\* Caller-supplied parsers (the Parser field): "nil" is no parser; the two
\* samples are a three-part parser (subscriberID.topic.payload) and one
\* that rejects every frame.
Parsers == {"nil", "threeParts", "rejectAll"}

ApplyParser(p, msg) ==
    LET msgSplit == Split(msg)
    IN IF p = "threeParts" /\ Len(msgSplit) = 3
       THEN Result(<<NewMessage(msgSplit[1], msgSplit[2], msgSplit[3])>>, TRUE)
       ELSE Result(<<>>, FALSE)

\* HubClient.parse.  With a Parser set, `*m, ok = h.Parser(msg)` calls the
\* parser and then stores through the named result m, which is still nil:
\* a nil pointer dereference.
parse(Parser, msg) ==
    IF Parser = "nil"
    THEN defaultParser(msg)
    ELSE Panic

----------------------------------------------------------------------------
\* The client, the hub and the goroutines

VARIABLES
    version,    \* 1: first evolution (lines 1-156), 2: second (158-329)
    Debug,      \* h.Debug
    Parser,     \* h.Parser (second evolution), "nil" when unset
    Conn,       \* h.Conn: 0 is nil, c > 0 is conns[c]
    conns,      \* every session tls.Dial returned, in dial order
    dials,      \* tls.Dial calls so far
    sup,        \* where the goroutine running GetMessages is
    lastStep,   \* what the last step of GetMessages was
    reads,      \* h.Conn.Read calls so far
    sent,       \* what the hub delivered to successful reads, in order
    handlers,   \* the goroutines started by `go h.Handler(*m)`
    pubs,       \* the Publish calls so far, each with where it is
    writers,    \* the goroutines started by `go h.Conn.Write(...)`
    panicked,   \* "none", or the goroutine whose panic ended the process
    cStage,     \* codec runs: "input", "encoded", "read", "decoded"
    cMsg,       \* codec runs: the message encoded, <<>> if none
    cRaw,       \* codec runs: the string handed to the parser
    cOut,       \* codec runs: the parser's result
    gpc,        \* GetPlainMessages: "start", "loop" or "returned"
    gResp,      \* GetPlainMessages: resp, err of c.Conn.Do and resp.Body
    gCalls,     \* GetPlainMessages: the arguments of c.MessageHandler calls
    gIter       \* GetPlainMessages: iterations of its for loop so far

hvars == <<Conn, conns, dials, sup, lastStep, reads, sent, handlers, pubs,
           writers, panicked>>
cvars == <<cStage, cMsg, cRaw, cOut>>
gvars == <<gpc, gResp, gCalls, gIter>>
config == <<version, Debug, Parser>>
vars == <<version, Debug, Parser, Conn, conns, dials, sup, lastStep, reads,
          sent, handlers, pubs, writers, panicked, cStage, cMsg, cRaw,
          cOut, gpc, gResp, gCalls, gIter>>

\* h.SubscriberID, as set by the caller ("3456" in the USAGE comment).
SubscriberID == Str(<<"s">>)

\* What callers publish.
PubTopics == {Str(<<"t">>)}
PubPayloads == {Str(<<"a", Dot, "b">>)}

\* What the hub delivers to one Read: the frame of a message another
\* client published (two, three and four-part payloads), or bytes that are
\* no frame at all.
InPayloads == {<<"a", Dot, "b">>, <<"a">>, <<"a", Dot, "b", Dot, "c">>}
InMsgs == {NewMessage(Str(<<"s">>), Str(<<"t">>), Str(p)) : p \in InPayloads}
BadFrames == {<<"x", NL>>}
Deliveries ==
    {[data |-> String(m).s, m |-> <<m>>] : m \in InMsgs}
        \cup {[data |-> d, m |-> <<>>] : d \in BadFrames}

\* b := make([]byte, 1024); h.Conn.Read(b); string(b): the bytes read,
\* padded with NUL bytes to the size of the buffer.
StringOfBuffer(data) == [s |-> data, nul |-> BufSize - Len(data)]

\* A session as tls.Dial returns it.  by: the function whose Connect call
\* dialled it; closed: Close was called on it; broken: a Read on it
\* returned an error; read: GetMessages called Read on it; writes: the
\* Write calls issued on it.
NewConn(by) ==
    [by |-> by, closed |-> FALSE, broken |-> FALSE, read |-> FALSE,
     writes |-> <<>>]

\* resp and err before c.Conn.Do has been called.
NoResponse == [err |-> FALSE, status |-> 0, body |-> <<>>, read |-> "no"]

Init ==
    /\ version \in {1, 2}
    /\ Debug \in BOOLEAN
    /\ Parser \in (IF version = 2 THEN Parsers ELSE {"nil"})
    /\ Conn = 0
    /\ conns = <<>>
    /\ dials = 0
    /\ sup = "Connect"
    /\ lastStep = "start"
    /\ reads = 0
    /\ sent = <<>>
    /\ handlers = <<>>
    /\ pubs = <<>>
    /\ writers = <<>>
    /\ panicked = "none"
    /\ cStage = "input"
    /\ cMsg = <<>>
    /\ cRaw = Str(<<>>)
    /\ cOut = Result(<<>>, FALSE)
    /\ gpc = "start"
    /\ gResp = NoResponse
    /\ gCalls = <<>>
    /\ gIter = 0

\* Whether Connect returns a non-nil error when h.Debug is debug and
\* tls.Dial succeeded (ok) or failed: never in the first evolution
\* (`return nil`); in the second only from inside `else if h.Debug`.
ConnectErrWhen(debug, ok) == ~ok /\ version = 2 /\ debug

\* HubClient.Connect, its error result: the first evolution returns nil
\* whatever tls.Dial said; the second returns err only inside
\* `else if h.Debug`.
ConnectErr(ok) == ConnectErrWhen(Debug, ok)

\* HubClient.Connect, its effect: h.Conn = c when tls.Dial succeeded,
\* h.Conn left as it was when it failed.
Connect(by, ok) ==
    /\ dials < MaxDials
    /\ dials' = dials + 1
    /\ conns' = IF ok THEN Append(conns, NewConn(by)) ELSE conns
    /\ Conn' = IF ok THEN Len(conns) + 1 ELSE Conn

----------------------------------------------------------------------------
\* GetMessages: for { Connect; getmessages or Sleep }

\* h.Connect() in GetMessages.  First evolution: err is always nil, so
\* getmessages follows (the `continue` branch is dead).  Second evolution:
\* getmessages follows when err == nil, time.Sleep otherwise.
SupConnect(ok) ==
    /\ panicked = "none"
    /\ sup = "Connect"
    /\ Connect("GetMessages", ok)
    /\ sup' = IF ConnectErr(ok) THEN "Sleep" ELSE "getmessages"
    /\ lastStep' = IF ok THEN "dial ok" ELSE "dial failed"
    /\ UNCHANGED <<reads, sent, handlers, pubs, writers, panicked>>
    /\ UNCHANGED <<config, cvars, gvars>>

\* time.Sleep(10 * time.Second) returns; the loop calls Connect next.
SupSleep ==
    /\ panicked = "none"
    /\ sup = "Sleep"
    /\ sup' = "Connect"
    /\ lastStep' = "slept"
    /\ UNCHANGED <<Conn, conns, dials, reads, sent, handlers, pubs, writers,
                   panicked>>
    /\ UNCHANGED <<config, cvars, gvars>>

\* As AtRead, for a loop that calls the handler itself and so reaches its
\* next Read only when every handler has returned.
AtReadAfterHandlers ==
    /\ panicked = "none"
    /\ sup = "getmessages"
    /\ reads < MaxReads
    /\ \A i \in DOMAIN handlers : handlers[i].done

\* getmessages is at `_, err := h.Conn.Read(b)`: the process runs and the
\* loop has not been left.  The loop holds no wait for the goroutines it
\* started.
AtRead ==
    /\ panicked = "none"
    /\ sup = "getmessages"
    /\ reads < MaxReads

\* As GoHandler, with the new goroutine put before the earlier ones.
GoHandlerFirst(hs, m) == <<[m |-> m, done |-> FALSE]>> \o hs

\* go h.Handler(*m): a new goroutine, started after those started before.
GoHandler(hs, m) == Append(hs, [m |-> m, done |-> FALSE])

\* getmessages, h.Conn.Read(b) with h.Conn == nil: (*tls.Conn).Read
\* dereferences its receiver.
SupReadNil ==
    /\ AtRead
    /\ Conn = 0
    /\ reads' = reads + 1
    /\ panicked' = "GetMessages"
    /\ lastStep' = "panic"
    /\ UNCHANGED <<Conn, conns, dials, sup, sent, handlers, pubs, writers>>
    /\ UNCHANGED <<config, cvars, gvars>>

\* getmessages, one iteration whose Read returns an error: the peer closed
\* or the transport failed (possible at any time), or the session was
\* closed locally or has failed before (then the only outcome).  break;
\* the session is not closed (`defer h.Conn.Close()` is commented out).
SupReadError ==
    /\ AtRead
    /\ Conn # 0
    /\ reads' = reads + 1
    /\ conns' = [conns EXCEPT ![Conn].broken = TRUE, ![Conn].read = TRUE]
    /\ sup' = "Connect"
    /\ lastStep' = "read error"
    /\ UNCHANGED <<Conn, dials, sent, handlers, pubs, writers, panicked>>
    /\ UNCHANGED <<config, cvars, gvars>>

\* h.parse(inMsg) (second evolution), parseMessage(inMsg) (first).
Decode(inMsg) ==
    IF version = 1 THEN parseMessage(inMsg) ELSE parse(Parser, inMsg)

\* getmessages, one iteration whose Read returns the bytes d.data:
\* inMsg := string(b); parse; `return` when !ok; go h.Handler(*m).
SupReadData(d) ==
    /\ AtRead
    /\ Conn # 0
    /\ ~conns[Conn].closed
    /\ ~conns[Conn].broken
    /\ reads' = reads + 1
    /\ conns' = [conns EXCEPT ![Conn].read = TRUE]
    /\ sent' = Append(sent, d)
    /\ LET r == Decode(StringOfBuffer(d.data))
       IN /\ panicked' = IF r.panic THEN "GetMessages" ELSE panicked
          /\ sup' = IF ~r.panic /\ ~r.ok THEN "Connect" ELSE sup
          /\ lastStep' = IF r.panic THEN "panic"
                         ELSE IF ~r.ok THEN "decode failed"
                         ELSE "dispatched"
          /\ handlers' = IF ~r.panic /\ r.ok
                         THEN GoHandler(handlers, r.m[1])
                         ELSE handlers
    /\ UNCHANGED <<Conn, dials, pubs, writers>>
    /\ UNCHANGED <<config, cvars, gvars>>

\* A goroutine started by `go h.Handler(*m)` returns.
HandlerReturn(i) ==
    /\ panicked = "none"
    /\ ~handlers[i].done
    /\ handlers' = [handlers EXCEPT ![i].done = TRUE]
    /\ UNCHANGED <<Conn, conns, dials, sup, lastStep, reads, sent, pubs,
                   writers, panicked>>
    /\ UNCHANGED <<config, cvars, gvars>>

----------------------------------------------------------------------------
\* Publish, called from a goroutine of the caller's

\* A Write call on session c, as the session records it.
WriteOn(c, call, bytes, ok) ==
    [conns EXCEPT ![c].writes =
        Append(@, [call |-> call, bytes |-> bytes, ok |-> ok,
                   afterClose |-> conns[c].closed])]

\* Publish is entered: `defer h.Conn.Close()` evaluates h.Conn now and
\* saves the call for the return; m := NewMessage(...); msg := m.String().
PublishCall(topic, payload) ==
    /\ panicked = "none"
    /\ Len(pubs) < MaxPublish
    /\ pubs' = Append(pubs,
                 [pc |-> IF version = 1 THEN "Write" ELSE "Connect",
                  deferred |-> Conn,
                  msg |-> String(NewMessage(SubscriberID, topic, payload)),
                  dialled |-> 0])
    /\ UNCHANGED <<Conn, conns, dials, sup, lastStep, reads, sent, handlers,
                   writers, panicked>>
    /\ UNCHANGED <<config, cvars, gvars>>

\* Second evolution: err := h.Connect(); if err != nil { return }.
PublishConnect(i, ok) ==
    /\ panicked = "none"
    /\ pubs[i].pc = "Connect"
    /\ Connect("Publish", ok)
    /\ pubs' = [pubs EXCEPT
                  ![i].pc = IF ConnectErr(ok) THEN "return" ELSE "Write",
                  ![i].dialled = IF ok THEN Len(conns) + 1 ELSE 0]
    /\ UNCHANGED <<sup, lastStep, reads, sent, handlers, writers, panicked>>
    /\ UNCHANGED <<config, cvars, gvars>>

\* First evolution: h.Conn.Write([]byte(msg)), in Publish's own goroutine;
\* its results are discarded.  A nil h.Conn is dereferenced by Write.  A
\* write on a session already closed fails.
PublishWrite(i, ok) ==
    /\ panicked = "none"
    /\ version = 1
    /\ pubs[i].pc = "Write"
    /\ IF Conn = 0
       THEN /\ ok
            /\ panicked' = "Publish"
            /\ UNCHANGED <<conns, pubs>>
       ELSE /\ ok => ~conns[Conn].closed
            /\ conns' = WriteOn(Conn, i, pubs[i].msg, ok)
            /\ pubs' = [pubs EXCEPT ![i].pc = "return"]
            /\ UNCHANGED panicked
    /\ UNCHANGED <<Conn, dials, sup, lastStep, reads, sent, handlers, writers>>
    /\ UNCHANGED <<config, cvars, gvars>>

\* Second evolution: go h.Conn.Write([]byte(msg)).  The receiver h.Conn
\* and the argument are evaluated here; the call runs in a new goroutine.
PublishGoWrite(i) ==
    /\ panicked = "none"
    /\ version = 2
    /\ pubs[i].pc = "Write"
    /\ writers' = Append(writers,
                    [call |-> i, conn |-> Conn, bytes |-> pubs[i].msg,
                     state |-> "go"])
    /\ pubs' = [pubs EXCEPT ![i].pc = "return"]
    /\ UNCHANGED <<Conn, conns, dials, sup, lastStep, reads, sent, handlers,
                   panicked>>
    /\ UNCHANGED <<config, cvars, gvars>>

\* The goroutine of `go h.Conn.Write(...)` runs the Write.
WriterRun(w, ok) ==
    /\ panicked = "none"
    /\ writers[w].state = "go"
    /\ IF writers[w].conn = 0
       THEN /\ ok
            /\ panicked' = "Write"
            /\ UNCHANGED <<conns, writers>>
       ELSE /\ ok => ~conns[writers[w].conn].closed
            /\ conns' = WriteOn(writers[w].conn, writers[w].call,
                                writers[w].bytes, ok)
            /\ writers' = [writers EXCEPT ![w].state = "done"]
            /\ UNCHANGED panicked
    /\ UNCHANGED <<Conn, dials, sup, lastStep, reads, sent, handlers, pubs>>
    /\ UNCHANGED <<config, cvars, gvars>>

\* Publish returns and the deferred Close runs, on the session h.Conn
\* named when Publish was entered.  A nil receiver is dereferenced by
\* Close.
PublishReturn(i) ==
    /\ panicked = "none"
    /\ pubs[i].pc = "return"
    /\ IF pubs[i].deferred = 0
       THEN /\ panicked' = "Publish"
            /\ UNCHANGED <<conns, pubs>>
       ELSE /\ conns' = [conns EXCEPT ![pubs[i].deferred].closed = TRUE]
            /\ pubs' = [pubs EXCEPT ![i].pc = "done"]
            /\ UNCHANGED panicked
    /\ UNCHANGED <<Conn, dials, sup, lastStep, reads, sent, handlers, writers>>
    /\ UNCHANGED <<config, cvars, gvars>>

Next ==
    \/ \E ok \in BOOLEAN : SupConnect(ok)
    \/ SupSleep
    \/ SupReadNil
    \/ SupReadError
    \/ \E d \in Deliveries : SupReadData(d)
    \/ \E i \in DOMAIN handlers : HandlerReturn(i)
    \/ \E topic \in PubTopics, payload \in PubPayloads : PublishCall(topic, payload)
    \/ \E i \in DOMAIN pubs, ok \in BOOLEAN : PublishConnect(i, ok)
    \/ \E i \in DOMAIN pubs, ok \in BOOLEAN : PublishWrite(i, ok)
    \/ \E i \in DOMAIN pubs : PublishGoWrite(i)
    \/ \E w \in DOMAIN writers, ok \in BOOLEAN : WriterRun(w, ok)
    \/ \E i \in DOMAIN pubs : PublishReturn(i)

Spec == Init /\ [][Next]_vars

----------------------------------------------------------------------------
\* The frame codec on its own: a message is encoded or bytes arrive, they
\* may pass through the receive buffer, and the client's parser is applied.

NonEmpty(alphabet, n) == SeqsUpTo(alphabet, n) \ {<<>>}

CodecMsgs ==
    {NewMessage(Str(id), Str(topic), Str(payload)) :
        id \in NonEmpty({"s", Dot}, 2),
        topic \in NonEmpty({"t", Dot}, 2),
        payload \in SeqsUpTo({"a", Dot}, MaxLen)}

CodecFrames == SeqsUpTo({"a", Dot, NL}, MaxLen + 1)

\* m.String() of a message.
CodecEncode(m) ==
    /\ cStage = "input"
    /\ cMsg' = <<m>>
    /\ cRaw' = String(m)
    /\ cStage' = "encoded"
    /\ UNCHANGED <<cOut, config, hvars, gvars>>

\* Bytes from the wire that no String call of this client produced.
CodecArrive(data) ==
    /\ cStage = "input"
    /\ cMsg' = <<>>
    /\ cRaw' = Str(data)
    /\ cStage' = "encoded"
    /\ UNCHANGED <<cOut, config, hvars, gvars>>

\* The bytes pass through getmessages' buffer: string(b).
CodecRead ==
    /\ cStage = "encoded"
    /\ cRaw' = StringOfBuffer(cRaw.s)
    /\ cStage' = "read"
    /\ UNCHANGED <<cMsg, cOut, config, hvars, gvars>>

\* The parser getmessages calls is applied.
CodecParse ==
    /\ cStage \in {"encoded", "read"}
    /\ cOut' = Decode(cRaw)
    /\ cStage' = "decoded"
    /\ UNCHANGED <<cMsg, cRaw, config, hvars, gvars>>

NextCodec ==
    \/ \E m \in CodecMsgs : CodecEncode(m)
    \/ \E data \in CodecFrames : CodecArrive(data)
    \/ CodecRead
    \/ CodecParse

SpecCodec == Init /\ [][NextCodec]_vars

----------------------------------------------------------------------------
\* The HTTP client (src/client.go): GetPlainMessages

\* What the hub answers: a status and a body.
Statuses == {StatusOK, 404}
Bodies == SeqsUpTo({"a", Dot}, MaxLen)

\* url := c.HubAddr; req, err := http.NewRequest("GET", url, nil).  When
\* that fails the function returns.  Otherwise the header is set and
\* resp, err := c.Conn.Do(req) is called, once, before the loop.
GetPlainRequest(reqOk, doOk, status, body) ==
    /\ gpc = "start"
    /\ gpc' = IF reqOk THEN "loop" ELSE "returned"
    /\ gResp' = IF ~reqOk THEN gResp
                ELSE IF ~doOk THEN [NoResponse EXCEPT !.err = TRUE]
                ELSE [err |-> FALSE, status |-> status, body |-> body,
                      read |-> "fresh"]
    /\ UNCHANGED <<gCalls, gIter, config, hvars, cvars>>

\* One iteration of `for { ... }`.  Nothing in the loop calls Do again,
\* changes err or resp, breaks or returns.  With err == nil and status 200
\* it calls io.ReadAll(resp.Body): a fresh body gives its bytes or fails;
\* a body read to its end gives no bytes and a nil error; a body that
\* failed fails again.  With a nil error from ReadAll the bytes go to
\* c.MessageHandler.
GetPlainLoop(readOk) ==
    /\ gpc = "loop"
    /\ gIter < MaxLoops
    /\ gIter' = gIter + 1
    /\ IF ~gResp.err /\ gResp.status = StatusOK
       THEN /\ readOk => gResp.read # "failed"
            /\ ~readOk => gResp.read # "drained"
            /\ gResp' = [gResp EXCEPT !.read = IF readOk THEN "drained"
                                                ELSE "failed"]
            /\ gCalls' = IF ~readOk THEN gCalls
                         ELSE IF gResp.read = "fresh"
                         THEN Append(gCalls, gResp.body)
                         ELSE Append(gCalls, <<>>)
       ELSE /\ readOk
            /\ UNCHANGED <<gResp, gCalls>>
    /\ UNCHANGED <<gpc, config, hvars, cvars>>

NextHTTP ==
    \/ \E reqOk \in BOOLEAN, doOk \in BOOLEAN, status \in Statuses,
          body \in Bodies : GetPlainRequest(reqOk, doOk, status, body)
    \/ \E readOk \in BOOLEAN : GetPlainLoop(readOk)

SpecHTTP == Init /\ [][NextHTTP]_vars

----------------------------------------------------------------------------
\* Claims
\*
\* C1, C8 and C13 to C15 are stated for both evolutions.  The other
\* claims about the streaming client are stated for the second evolution,
\* the client.go the repository ends with: `version = 2`.  C18 is about
\* the HTTP client.

\* The sessions GetMessages dialled that no Close was called on.
OpenReadSessions ==
    {c \in DOMAIN conns : conns[c].by = "GetMessages" /\ ~conns[c].closed}

\* The writers of Publish call i have all run.
WritesDone(i) ==
    \A w \in DOMAIN writers : writers[w].call = i => writers[w].state = "done"

\* subscriberID and topic hold no '.', the payload is of the form a.b
\* with a and b not empty.
Unambiguous(m) ==
    /\ DotAt(m.SubscriberID.s) = {}
    /\ DotAt(m.Topic.s) = {}
    /\ Cardinality(DotAt(m.Payload.s)) = 1
    /\ \A k \in 1..2 : Split(m.Payload)[k].s # <<>>

\* C1: in the read loop, a buffer that was read but fails to decode
\* (ok = false) is dropped and the loop goes on to its next read; only a
\* read error ends the read loop.
C1_DecodeFailureKeepsReading ==
    lastStep = "decode failed" => sup = "getmessages"

\* C2: whenever a connect attempt of GetMessages fails, for every
\* configuration, the supervisor does not enter the read loop and is in the
\* backoff wait before its next attempt.
C2_FailedConnectBacksOff ==
    version = 2 => (lastStep = "dial failed" => sup = "Sleep")

\* C3: Publish uses a session of its own: it never closes or writes to a
\* session GetMessages dialled, never replaces the handle the read loop
\* reads from, and the read loop never reads a session Publish dialled.
\* Stated with Debug set, where a failed dial keeps GetMessages out of the
\* read loop.
C3_PublishSessionUnshared ==
    (version = 2 /\ Debug) =>
        /\ \A c \in DOMAIN conns :
              /\ conns[c].by = "GetMessages" =>
                    ~conns[c].closed /\ conns[c].writes = <<>>
              /\ conns[c].by = "Publish" => ~conns[c].read
        /\ (sup = "getmessages" /\ Conn # 0) =>
              conns[Conn].by = "GetMessages"

\* C4: at every point at most one session dialled by GetMessages is
\* connected and not yet closed by the client.
C4_AtMostOneReadSession ==
    version = 2 => Cardinality(OpenReadSessions) <= 1

\* C5: every Publish call that dialled a session has, once it returned and
\* its write ran, issued exactly one write on that session, of the encoded
\* frame and before the session was closed, and has closed that session.
C5_PublishWritesOnceThenCloses ==
    version = 2 =>
        \A i \in DOMAIN pubs :
            (pubs[i].pc = "done" /\ WritesDone(i) /\ pubs[i].dialled # 0) =>
                LET c == conns[pubs[i].dialled]
                IN /\ Len(c.writes) = 1
                   /\ c.writes[1].call = i
                   /\ c.writes[1].bytes = pubs[i].msg
                   /\ ~c.writes[1].afterClose
                   /\ c.closed

\* C6: when every frame that arrived is the encoding of a message (here:
\* of an unambiguous one), the handler was started exactly once per frame,
\* in order, with a message equal to the encoded one in all three fields.
C6_EveryValidFrameHandled ==
    (/\ version = 2
     /\ Parser = "nil"
     /\ \A k \in DOMAIN sent :
            sent[k].m # <<>> /\ Unambiguous(sent[k].m[1])) =>
        /\ Len(handlers) = Len(sent)
        /\ \A k \in DOMAIN sent : handlers[k].m = sent[k].m[1]

\* C7: decoding the frame m.String() with the default parser returns
\* ok = true and a message equal to m, for every unambiguous m.
C7_RoundTrip ==
    (/\ version = 2
     /\ cStage = "decoded"
     /\ Parser = "nil"
     /\ cMsg # <<>>
     /\ cRaw = String(cMsg[1])
     /\ Unambiguous(cMsg[1])) =>
        cOut = Result(cMsg, TRUE)

\* C8: the default decoder returns ok = false, without a panic, for every
\* input that does not split on '.' into exactly 4 parts.
C8_RejectsNotFourParts ==
    (/\ cStage = "decoded"
     /\ Parser = "nil"
     /\ Len(Split(cRaw)) # 4) =>
        (~cOut.panic /\ ~cOut.ok)

\* C9: with a Parser configured, parse returns what that parser returns
\* for the frame; with none, what the default four-part parser returns.
C9_ParseUsesConfiguredParser ==
    (cStage = "decoded" /\ version = 2) =>
        cOut = IF Parser = "nil"
               THEN defaultParser(cRaw)
               ELSE ApplyParser(Parser, cRaw)

\* C10: GetMessages never stops: a read error ends the read loop and the
\* supervisor connects again, and no dial outcome, read outcome or frame
\* content makes the loop panic.
C10_SupervisorNeverStops ==
    version = 2 =>
        /\ panicked # "GetMessages"
        /\ lastStep = "read error" => sup = "Connect"

\* C11: when the read loop ended on a read error, the session it was
\* reading is closed before GetMessages creates its next session: every
\* session of GetMessages that failed under Read and has a successor
\* dialled by GetMessages is closed.
C11_ClosedBeforeNextSession ==
    version = 2 =>
        \A c \in DOMAIN conns, n \in DOMAIN conns :
            (/\ c < n
             /\ conns[c].by = "GetMessages"
             /\ conns[n].by = "GetMessages"
             /\ conns[c].broken) =>
                conns[c].closed

\* What Publish call i hands back to its caller once it has returned:
\* `func (h *HubClient) Publish(topic string, payload []byte)` has no
\* result list, and the results of Write are dropped (by the `go`
\* statement; by the expression statement in the first evolution).
PublishOutcome(i) == <<>>

\* The Write calls Publish call i issued, as <<session, index>>.
WritesOf(i) ==
    {<<c, k>> \in (DOMAIN conns) \X (1..Len(pubs)) :
        k \in DOMAIN conns[c].writes /\ conns[c].writes[k].call = i}

\* C12: when the write of a Publish call failed, the outcome the caller
\* gets carries the failure, and the call issued no second write.
C12_WriteFailureReported ==
    \A i \in DOMAIN pubs :
        (version = 2 /\ pubs[i].pc = "done" /\ WritesDone(i)) =>
            /\ Cardinality(WritesOf(i)) <= 1
            /\ (\E w \in WritesOf(i) : ~conns[w[1]].writes[w[2]].ok) =>
                  PublishOutcome(i) # <<>>

\* C13: the read loop never waits for a handler: whenever the loop is at
\* its Read on a live session, the Read can return any delivery and the
\* loop can decode and hand it off, whichever handlers are still running.
C13_ReadNeverWaitsForHandler ==
    (/\ panicked = "none"
     /\ sup = "getmessages"
     /\ reads < MaxReads
     /\ Conn # 0
     /\ ~conns[Conn].closed
     /\ ~conns[Conn].broken) =>
        \A d \in Deliveries : ENABLED SupReadData(d)

\* A later frame was read and handed off while the handlers of the two
\* frames before it were both still running.
C13_Witness ==
    /\ Len(handlers) >= 3
    /\ ~handlers[1].done
    /\ ~handlers[2].done

\* The messages getmessages hands to `go h.Handler` for the deliveries
\* frames, taken in the order they were read.
RECURSIVE HandedOff(_)
HandedOff(frames) ==
    IF frames = <<>> THEN <<>>
    ELSE LET r == Decode(StringOfBuffer(frames[Len(frames)].data))
             before == HandedOff(SubSeq(frames, 1, Len(frames) - 1))
         IN IF ~r.panic /\ r.ok THEN Append(before, r.m[1]) ELSE before

\* C15: the handler goroutines were started in the order in which their
\* frames were read; which of them has returned is not constrained.
C15_HandOffInReadOrder ==
    [k \in DOMAIN handlers |-> handlers[k].m] = HandedOff(sent)

\* Two different messages were handed off, the first handler still
\* running when the second has already returned.
C15_Witness ==
    /\ Len(handlers) >= 2
    /\ handlers[1].m # handlers[2].m
    /\ ~handlers[1].done
    /\ handlers[2].done

C16_ReadOnlyOnFreshSession ==
    [][(version = 2 /\ reads' # reads) =>
          (Conn # 0 /\ lastStep # "dial failed")]_vars

\* C17: Debug changes logging only.  Two runs with the same dial and read
\* outcomes that differ only in Debug take the same steps; up to the first
\* failed dial their states are equal, so after a failed dial GetMessages
\* is where the run with the other value of Debug is: both asleep or both
\* in the read loop.
C17_DebugOnlyLogs ==
    (version = 2 /\ lastStep = "dial failed") =>
        sup = IF ConnectErrWhen(~Debug, FALSE) THEN "Sleep" ELSE "getmessages"

\* C18: GetPlainMessages calls MessageHandler once per response body the
\* hub sent, with that body: never a second time for the one response it
\* has, never with bytes that are not the response's body; and after a
\* failed request it is not going round its loop.
C18_HandlerOncePerResponse ==
    /\ Len(gCalls) <= 1
    /\ \A k \in DOMAIN gCalls :
          ~gResp.err /\ gResp.status = StatusOK /\ gCalls[k] = gResp.body
    /\ gResp.err => gIter = 0

====
